---- MODULE Spec2Model ----
(***************************************************************************)
(* Model of the noozGPT backend (src/main.py): the POST /generateExcuse    *)
(* handler and the fetchers it awaits one after another.                   *)
(*                                                                         *)
(* Python values are tagged records: None, str, num, dict, list.  A JSON   *)
(* object is a dict whose record f has exactly the keys that are present,  *)
(* so that a missing key and a key holding null stay different, as they    *)
(* are for dict.get.                                                       *)
(***************************************************************************)
EXTENDS Integers, Sequences, FiniteSets, TLC

VARIABLES
    pc,               \* position of the handler coroutine
    client_host,      \* request.client.host, as a sequence of characters
    role,             \* data.get("role", "someone")
    ip,               \* the handler's local ip
    loc_info,         \* handler locals; Unset before their assignment
    weather,
    time_info,
    news,
    transport_status,
    excuse,
    response,         \* what the endpoint answers
    calls,            \* outbound calls in order: begin / end events
    geo_arg,          \* the address get_location_by_ip was called with
    prompt,           \* the prompt handed to the generative model
    upstream          \* what each service and the clock answered (history)

vars == <<pc, client_host, role, ip, loc_info, weather, time_info, news,
          transport_status, excuse, response, calls, geo_arg, prompt, upstream>>

-----------------------------------------------------------------------------
(* Bounds of the model *)

MaxArticles == 2
MaxTextLen == 2

-----------------------------------------------------------------------------
(* Python values *)

PyNone == [t |-> "None"]
Str(s) == [t |-> "str", s |-> s]
Num(n) == [t |-> "num", n |-> n]
Bool(b) == [t |-> "bool", b |-> b]
Dict(f) == [t |-> "dict", f |-> f]
List(items) == [t |-> "list", items |-> items]
EmptyDict == Dict([k \in {} |-> PyNone])
Unset == [t |-> "unset"]

IsDict(v) == v.t = "dict"

\* d.get(k, default) on a dict d
Get(d, k, default) == IF k \in DOMAIN d.f THEN d.f[k] ELSE default

\* Python truthiness: "not v"
Falsy(v) ==
    \/ v.t = "None"
    \/ (v.t = "dict" /\ DOMAIN v.f = {})
    \/ (v.t = "list" /\ v.items = <<>>)
    \/ (v.t = "str" /\ v.s = "")
    \/ (v.t = "num" /\ v.n = 0)
    \/ (v.t = "bool" /\ ~v.b)

\* outcome of a call: a returned value or a raised exception
Return(v) == [ret |-> v]
Raise(e) == [exc |-> e]
Raised(r) == "exc" \in DOMAIN r

\* an answer of an external HTTP service, as httpx hands it over
TransportError == [kind |-> "transport_error"]
Http(code, body) == [kind |-> "http", status_code |-> code, body |-> body]
InvalidJson == [t |-> "invalid_json"]

\* sequences over S of length 0..n
SeqsUpTo(S, n) == UNION {[1..k -> S] : k \in 0..n}

-----------------------------------------------------------------------------
(* get_location_by_ip *)

\* lines 44-50
LocationFrom(data) ==
    Dict([city    |-> Get(data, "city", PyNone),
          region  |-> Get(data, "regionName", PyNone),
          country |-> Get(data, "country", PyNone),
          lat     |-> Get(data, "lat", PyNone),
          lon     |-> Get(data, "lon", PyNone)])

\* get_location_by_ip without the test of data['status']
get_location_by_ip_any_status(resp) ==
    IF resp.kind = "transport_error" THEN Raise("TransportError")
    ELSE IF resp.body = InvalidJson THEN Raise("JSONDecodeError")
    ELSE Return(LocationFrom(resp.body))

get_location_by_ip(resp) ==
    IF resp.kind = "transport_error" THEN Raise("TransportError")
    ELSE IF resp.body = InvalidJson THEN Raise("JSONDecodeError")
    ELSE LET data == resp.body IN
         IF "status" \notin DOMAIN data.f THEN Raise("KeyError")
         ELSE IF data.f["status"] = Str("success")
              THEN Return(LocationFrom(data))
              ELSE Return(PyNone)

-----------------------------------------------------------------------------
(* get_weather *)

\* lines 61-74
WeatherFrom(body) ==
    IF body = InvalidJson THEN Raise("JSONDecodeError")
    ELSE LET data == body
             current == Get(data, "current", EmptyDict)
         IN  IF ~IsDict(current) THEN Raise("AttributeError")
             ELSE LET cond == Get(current, "condition", EmptyDict) IN
                  IF ~IsDict(cond) THEN Raise("AttributeError")
                  ELSE Return(Dict(
                         [condition     |-> Get(cond, "text", Str("Unknown")),
                          temperature_c |-> Get(current, "temp_c", Str("N/A")),
                          humidity      |-> Get(current, "humidity", Str("N/A")),
                          wind_kph      |-> Get(current, "wind_kph", Str("N/A"))]))

\* get_weather without the test of response.status_code
get_weather_any_status(resp) ==
    IF resp.kind = "transport_error" THEN Raise("TransportError")
    ELSE WeatherFrom(resp.body)

get_weather(resp) ==
    IF resp.kind = "transport_error" THEN Raise("TransportError")
    ELSE IF resp.status_code = 200 THEN WeatherFrom(resp.body)
    ELSE Return(PyNone)

-----------------------------------------------------------------------------
(* get_time_context: hour and weekday are read from the clock *)

Weekdays == {"Monday", "Tuesday", "Wednesday", "Thursday", "Friday",
             "Saturday", "Sunday"}
Hours == 0..23

\* time_period with the upper ends of both ranges left out
time_period_exclusive(hour) ==
    IF 7 <= hour /\ hour < 10 THEN "morning rush hour"
    ELSE IF 16 <= hour /\ hour < 19 THEN "evening rush hour"
    ELSE "off-peak hours"

time_period(hour) ==
    IF 7 <= hour /\ hour <= 10 THEN "morning rush hour"
    ELSE IF 16 <= hour /\ hour <= 19 THEN "evening rush hour"
    ELSE "off-peak hours"

is_weekend(weekday) == weekday \in {"Saturday", "Sunday"}

get_time_context(now) ==
    Dict([hour        |-> Num(now.hour),
          weekday     |-> Str(now.weekday),
          time_period |-> Str(time_period(now.hour)),
          is_weekend  |-> Bool(is_weekend(now.weekday))])

-----------------------------------------------------------------------------
(* get_news *)

RECURSIVE MapArticles(_)
\* the list comprehension of lines 116-123, in article order
MapArticles(articles) ==
    IF articles = <<>> THEN Return(<<>>)
    ELSE LET article == Head(articles) IN
         IF ~IsDict(article) THEN Raise("AttributeError")
         ELSE LET source == Get(article, "source", EmptyDict) IN
              IF ~IsDict(source) THEN Raise("AttributeError")
              ELSE LET rest == MapArticles(Tail(articles)) IN
                   IF Raised(rest) THEN rest
                   ELSE Return(<<Dict([title  |-> Get(article, "title", PyNone),
                                       source |-> Get(source, "name", PyNone),
                                       url    |-> Get(article, "url", PyNone)])>>
                               \o rest.ret)

get_news(resp) ==
    IF resp.kind = "transport_error" THEN Raise("TransportError")
    ELSE IF resp.status_code = 200
    THEN IF resp.body = InvalidJson THEN Raise("JSONDecodeError")
         ELSE LET data == resp.body
                  articles == Get(data, "articles", List(<<>>))
              IN  IF articles.t # "list" THEN Raise("TypeError")
                  ELSE LET mapped == MapArticles(articles.items) IN
                       IF Raised(mapped) THEN mapped
                       ELSE Return(List(mapped.ret))
    ELSE Return(PyNone)

-----------------------------------------------------------------------------
(* get_public_transport_status *)

get_public_transport_status(location) ==
    Dict([status |-> Str("Normal service"),
          note   |-> Str("No delays reported on main bus and metro lines.")])

-----------------------------------------------------------------------------
(* generate_excuse_text *)

\* Python strings the code looks into are sequences of characters
Chars(c) == [t |-> "chars", c |-> c]

Whitespace == {" "}

RECURSIVE LStrip(_)
LStrip(s) == IF s # <<>> /\ Head(s) \in Whitespace THEN LStrip(Tail(s)) ELSE s

RECURSIVE RStrip(_)
RStrip(s) ==
    IF s # <<>> /\ s[Len(s)] \in Whitespace THEN RStrip(SubSeq(s, 1, Len(s) - 1))
    ELSE s

\* str.strip()
Strip(s) == RStrip(LStrip(s))

Fallback == Chars(<<"Sorry, I couldn't come up with a good excuse right now.">>)

\* the f-string of lines 138-154, by the values it embeds
BuildPrompt(location, w, t, news_headlines, transport, r) ==
    [role      |-> r,
     location  |-> <<location.f["city"], location.f["region"], location.f["country"]>>,
     weather   |-> <<w.f["condition"], w.f["temperature_c"], w.f["humidity"],
                     w.f["wind_kph"]>>,
     time      |-> <<t.f["weekday"], t.f["time_period"], t.f["hour"]>>,
     transport |-> <<transport.f["status"], transport.f["note"]>>,
     headlines |-> [i \in 1..Len(news_headlines.items) |->
                      [index  |-> i,
                       title  |-> news_headlines.items[i].f["title"],
                       source |-> news_headlines.items[i].f["source"]]]]

\* generate_excuse_text with response.text read without its failure caught
generate_excuse_text_no_text(outcome) ==
    IF outcome.kind = "raise" THEN Fallback
    ELSE IF outcome.kind = "no_text" THEN Chars(<<>>)
    ELSE Chars(Strip(outcome.text))

\* the try / except around the model call; outcome is what the library does
generate_excuse_text(outcome) ==
    IF outcome.kind = "raise" THEN Fallback
    ELSE IF outcome.kind = "no_text" THEN Fallback
    ELSE Chars(Strip(outcome.text))

-----------------------------------------------------------------------------
(* generate_excuse: the handler *)

StartsWith(s, p) == Len(s) >= Len(p) /\ SubSeq(s, 1, Len(p)) = p

TestIp == <<"8", ".", "8", ".", "8", ".", "8">>

\* SubstituteIp knowing only the two usual loopback spellings
SubstituteIp_exact(host) ==
    IF host = <<"1", "2", "7", ".", "0", ".", "0", ".", "1">> \/ host = <<":", ":", "1">>
    THEN TestIp
    ELSE host

\* lines 173-175
SubstituteIp(host) ==
    IF StartsWith(host, <<"1", "2", "7", ".">>) \/ host = <<":", ":", "1">>
    THEN TestIp
    ELSE host

Pending == [status |-> "pending"]
Returned(content) == [status |-> "returned", content |-> content]
Failed(e) == [status |-> "raised", exc |-> e]

Begin(svc) == [svc |-> svc, ev |-> "begin"]
End(svc) == [svc |-> svc, ev |-> "end"]

Init ==
    /\ pc = "idle"
    /\ client_host = <<>>
    /\ role = Unset
    /\ ip = <<>>
    /\ loc_info = Unset
    /\ weather = Unset
    /\ time_info = Unset
    /\ news = Unset
    /\ transport_status = Unset
    /\ excuse = Unset
    /\ response = Pending
    /\ calls = <<>>
    /\ geo_arg = <<>>
    /\ prompt = Unset
    /\ upstream = [geo |-> Unset, weather |-> Unset, clock |-> Unset,
                   news |-> Unset, gen |-> Unset]

\* lines 170-177: read the body and the caller's address
Receive(D) ==
    /\ pc = "idle"
    /\ \E host \in D.hosts, data \in D.bodies :
          /\ client_host' = host
          /\ role' = Get(data, "role", Str("someone"))
          /\ ip' = SubstituteIp(host)
    /\ pc' = "geo_call"
    /\ UNCHANGED <<loc_info, weather, time_info, news, transport_status, excuse,
                   response, calls, geo_arg, prompt, upstream>>

\* line 179 up to the await inside get_location_by_ip
GeoCall ==
    /\ pc = "geo_call"
    /\ geo_arg' = ip
    /\ calls' = Append(calls, Begin("geolocation"))
    /\ pc' = "geo_wait"
    /\ UNCHANGED <<client_host, role, ip, loc_info, weather, time_info, news,
                   transport_status, excuse, response, prompt, upstream>>

\* lines 179-182
GeoReturn(D) ==
    /\ pc = "geo_wait"
    /\ \E resp \in D.geo :
          LET r == get_location_by_ip(resp) IN
          /\ upstream' = [upstream EXCEPT !.geo = resp]
          /\ calls' = Append(calls, End("geolocation"))
          /\ IF Raised(r)
             THEN /\ response' = Failed(r.exc)
                  /\ pc' = "done"
                  /\ UNCHANGED loc_info
             ELSE /\ loc_info' = r.ret
                  /\ IF Falsy(r.ret)
                     THEN /\ response' = Returned(Dict([error |->
                                 <<"Could not determine location from IP: ", ip>>]))
                          /\ pc' = "done"
                     ELSE /\ pc' = "weather_call"
                          /\ UNCHANGED response
    /\ UNCHANGED <<client_host, role, ip, weather, time_info, news,
                   transport_status, excuse, geo_arg, prompt>>

\* WeatherCall starting the news request together with the weather request
WeatherCall_gather ==
    /\ pc = "weather_call"
    /\ calls' = calls \o <<Begin("weather"), Begin("news")>>
    /\ pc' = "weather_wait"
    /\ UNCHANGED <<client_host, role, ip, loc_info, weather, time_info, news,
                   transport_status, excuse, response, geo_arg, prompt, upstream>>

\* line 184 up to the await inside get_weather
WeatherCall ==
    /\ pc = "weather_call"
    /\ calls' = Append(calls, Begin("weather"))
    /\ pc' = "weather_wait"
    /\ UNCHANGED <<client_host, role, ip, loc_info, weather, time_info, news,
                   transport_status, excuse, response, geo_arg, prompt, upstream>>

\* lines 184-187
WeatherReturn(D) ==
    /\ pc = "weather_wait"
    /\ \E resp \in D.weather :
          LET r == get_weather(resp) IN
          /\ upstream' = [upstream EXCEPT !.weather = resp]
          /\ calls' = Append(calls, End("weather"))
          /\ IF Raised(r)
             THEN /\ response' = Failed(r.exc)
                  /\ pc' = "done"
                  /\ UNCHANGED weather
             ELSE /\ weather' = r.ret
                  /\ IF Falsy(r.ret)
                     THEN /\ response' = Returned(Dict([error |->
                                 <<"Could not fetch weather data">>]))
                          /\ pc' = "done"
                     ELSE /\ pc' = "time"
                          /\ UNCHANGED response
    /\ UNCHANGED <<client_host, role, ip, loc_info, time_info, news,
                   transport_status, excuse, geo_arg, prompt>>

\* lines 189-190
TimeContext(D) ==
    /\ pc = "time"
    /\ \E now \in D.clock :
          /\ time_info' = get_time_context(now)
          /\ upstream' = [upstream EXCEPT !.clock = now]
    /\ pc' = "news_call"
    /\ UNCHANGED <<client_host, role, ip, loc_info, weather, news,
                   transport_status, excuse, response, calls, geo_arg, prompt>>

\* line 192 up to the await inside get_news
NewsCall ==
    /\ pc = "news_call"
    /\ calls' = Append(calls, Begin("news"))
    /\ pc' = "news_wait"
    /\ UNCHANGED <<client_host, role, ip, loc_info, weather, time_info, news,
                   transport_status, excuse, response, geo_arg, prompt, upstream>>

\* lines 192-198: the news answer, then the transport stub
NewsReturn(D) ==
    /\ pc = "news_wait"
    /\ \E resp \in D.news :
          LET r == get_news(resp) IN
          /\ upstream' = [upstream EXCEPT !.news = resp]
          /\ calls' = Append(calls, End("news"))
          /\ IF Raised(r)
             THEN /\ response' = Failed(r.exc)
                  /\ pc' = "done"
                  /\ UNCHANGED <<news, transport_status>>
             ELSE /\ news' = IF r.ret = PyNone THEN List(<<>>) ELSE r.ret
                  /\ transport_status' = get_public_transport_status(loc_info)
                  /\ pc' = "gen_call"
                  /\ UNCHANGED response
    /\ UNCHANGED <<client_host, role, ip, loc_info, weather, time_info,
                   excuse, geo_arg, prompt>>

\* lines 200 and 138-160: compose the prompt and submit it
GenCall ==
    /\ pc = "gen_call"
    /\ prompt' = BuildPrompt(loc_info, weather, time_info, news,
                             transport_status, role)
    /\ calls' = Append(calls, Begin("generation"))
    /\ pc' = "gen_wait"
    /\ UNCHANGED <<client_host, role, ip, loc_info, weather, time_info, news,
                   transport_status, excuse, response, geo_arg, upstream>>

\* lines 160-165 and 201-211
GenReturn(D) ==
    /\ pc = "gen_wait"
    /\ \E outcome \in D.gen :
          LET e == generate_excuse_text(outcome) IN
          /\ upstream' = [upstream EXCEPT !.gen = outcome]
          /\ excuse' = e
          /\ response' = Returned(Dict(
                [ip_used                 |-> Chars(ip),
                 location                |-> loc_info,
                 weather                 |-> weather,
                 time_info               |-> time_info,
                 news_headlines          |-> news,
                 public_transport_status |-> transport_status,
                 excuse                  |-> e]))
    /\ calls' = Append(calls, End("generation"))
    /\ pc' = "done"
    /\ UNCHANGED <<client_host, role, ip, loc_info, weather, time_info, news,
                   transport_status, geo_arg, prompt>>

-----------------------------------------------------------------------------
(* What the environment can hand to the handler *)

\* all dicts whose keys are a subset of DOMAIN V, key k holding a value of V[k]
JsonObjects(V) ==
    {Dict(f) : f \in UNION {{g \in [S -> UNION {V[k] : k \in S}] :
                                \A k \in S : g[k] \in V[k]} : S \in SUBSET DOMAIN V}}

ClientHosts ==
    {<<"1", "2", "7", ".", "0", ".", "0", ".", "1">>,
     <<"1", "2", "7", ".", "8", ".", "8", ".", "8">>,
     <<":", ":", "1">>,
     <<":", ":", "1", "f">>,
     <<"1", "2", "7", "0", ":", ":", "1">>,
     <<"1", "2", ".", "7", ".", "0", ".", "1">>,
     TestIp}

RequestBodies == JsonObjects([role |-> {Str("a delivery driver")}])

GeoSuccessBodies ==
    {Dict(o.f @@ [status     |-> Str("success"),
                  country    |-> Str("India"),
                  regionName |-> Str("Maharashtra"),
                  lon        |-> Num(72)]) :
        o \in JsonObjects([city |-> {Str("Mumbai")}, lat |-> {Num(19)}])}

GeoFailBodies ==
    {Dict([status |-> st, message |-> Str("reserved range")]) :
        st \in {Str("fail"), PyNone}}

GeoAnswers ==
    {TransportError, Http(200, InvalidJson),
     Http(200, Dict([message |-> Str("reserved range")]))}
    \cup {Http(200, b) : b \in GeoSuccessBodies \cup GeoFailBodies}

ErrorBody == Dict([error |-> Dict([code |-> Num(1002)])])

CompleteCurrent ==
    Dict([condition |-> Dict([text |-> Str("Rain")]), temp_c |-> Num(27),
          humidity |-> Num(80), wind_kph |-> Num(12)])

CurrentObjects ==
    JsonObjects([condition |-> {PyNone} \cup JsonObjects([text |-> {Str("Rain"), PyNone}]),
                 temp_c    |-> {Num(27), PyNone},
                 humidity  |-> {Num(80)},
                 wind_kph  |-> {Num(12)}])

WeatherBodies == JsonObjects([current |-> {PyNone} \cup CurrentObjects])

WeatherFailures == {TransportError, Http(401, ErrorBody), Http(500, InvalidJson)}

WeatherAnswers ==
    WeatherFailures \cup {Http(200, InvalidJson)}
    \cup {Http(200, b) : b \in WeatherBodies}

WeatherAnswersSmall ==
    WeatherFailures
    \cup {Http(200, Dict([current |-> CompleteCurrent])),
          Http(200, Dict([current |-> Dict([temp_c |-> Num(27)])])),
          Http(200, Dict([current |-> Dict([condition |-> PyNone])]))}

Clock == [hour : Hours, weekday : Weekdays]

ClockSmall ==
    {[hour |-> 8, weekday |-> "Monday"], [hour |-> 17, weekday |-> "Saturday"],
     [hour |-> 23, weekday |-> "Sunday"]}

Articles ==
    JsonObjects([title  |-> {Str("A"), Str("B")},
                 source |-> {PyNone} \cup JsonObjects([name |-> {Str("BBC")}]),
                 url    |-> {Str("https://a")}])

NewsBodies ==
    JsonObjects([articles |-> {PyNone} \cup
                    {List(a) : a \in SeqsUpTo(Articles, MaxArticles)}])

NewsFailures == {TransportError, Http(401, ErrorBody), Http(500, InvalidJson)}

NewsAnswers ==
    NewsFailures \cup {Http(200, InvalidJson)} \cup {Http(200, b) : b \in NewsBodies}

ArticleA ==
    Dict([title |-> Str("A"), source |-> Dict([name |-> Str("BBC")]),
          url |-> Str("https://a")])

NewsAnswersSmall ==
    NewsFailures
    \cup {Http(200, Dict([articles |-> List(<<>>)])),
          Http(200, Dict([articles |-> List(<<ArticleA, Dict([title |-> Str("B")])>>)])),
          Http(200, Dict([articles |-> List(<<Dict([title |-> Str("A"),
                                                     source |-> PyNone])>>)]))}

\* what the generative-model library does: generate_content raises, the
\* response has no text part (response.text raises), or it has a text
GenOutcomes ==
    {[kind |-> "raise"], [kind |-> "no_text"]}
    \cup {[kind |-> "text", text |-> s] : s \in SeqsUpTo({" ", "x"}, MaxTextLen)}

GenOutcomesSmall == {[kind |-> "raise"], [kind |-> "text", text |-> <<"x", " ">>]}

-----------------------------------------------------------------------------
(* Specifications *)

\* the handler under every kind of answer of every service
Env ==
    [hosts |-> ClientHosts, bodies |-> RequestBodies, geo |-> GeoAnswers,
     weather |-> WeatherAnswersSmall, clock |-> ClockSmall,
     news |-> NewsAnswersSmall, gen |-> GenOutcomes]

Next ==
    \/ Receive(Env)
    \/ GeoCall
    \/ GeoReturn(Env)
    \/ WeatherCall
    \/ WeatherReturn(Env)
    \/ TimeContext(Env)
    \/ NewsCall
    \/ NewsReturn(Env)
    \/ GenCall
    \/ GenReturn(Env)

Spec == Init /\ [][Next]_vars

\* one request shape, the service under study answering in every way
EnvBase ==
    [hosts |-> {TestIp, <<":", ":", "1">>}, bodies |-> RequestBodies,
     geo |-> {Http(200, b) : b \in GeoSuccessBodies},
     weather |-> {Http(200, Dict([current |-> CompleteCurrent]))},
     clock |-> {[hour |-> 8, weekday |-> "Monday"]},
     news |-> {Http(200, Dict([articles |-> List(<<ArticleA>>)]))},
     gen |-> GenOutcomesSmall]

EnvWeather == [EnvBase EXCEPT !.weather = WeatherAnswers]
EnvTime == [EnvBase EXCEPT !.clock = Clock]
EnvNews == [EnvBase EXCEPT !.news = NewsAnswers]

NextWeather ==
    \/ Receive(EnvWeather)
    \/ GeoCall
    \/ GeoReturn(EnvWeather)
    \/ WeatherCall
    \/ WeatherReturn(EnvWeather)
    \/ TimeContext(EnvWeather)
    \/ NewsCall
    \/ NewsReturn(EnvWeather)
    \/ GenCall
    \/ GenReturn(EnvWeather)

SpecWeather == Init /\ [][NextWeather]_vars

NextTime ==
    \/ Receive(EnvTime)
    \/ GeoCall
    \/ GeoReturn(EnvTime)
    \/ WeatherCall
    \/ WeatherReturn(EnvTime)
    \/ TimeContext(EnvTime)
    \/ NewsCall
    \/ NewsReturn(EnvTime)
    \/ GenCall
    \/ GenReturn(EnvTime)

SpecTime == Init /\ [][NextTime]_vars

NextNews ==
    \/ Receive(EnvNews)
    \/ GeoCall
    \/ GeoReturn(EnvNews)
    \/ WeatherCall
    \/ WeatherReturn(EnvNews)
    \/ TimeContext(EnvNews)
    \/ NewsCall
    \/ NewsReturn(EnvNews)
    \/ GenCall
    \/ GenReturn(EnvNews)

SpecNews == Init /\ [][NextNews]_vars

-----------------------------------------------------------------------------
(* Properties *)

ErrorShaped ==
    response.status = "returned" /\ DOMAIN response.content.f = {"error"}

SuccessFields ==
    {"ip_used", "location", "weather", "time_info", "news_headlines",
     "public_transport_status", "excuse"}

SuccessShaped ==
    response.status = "returned" /\ DOMAIN response.content.f = SuccessFields

Called(svc) == \E i \in 1..Len(calls) : calls[i] = Begin(svc)

Answered(a) == a # Unset

\* the geolocation service answered with a status field that is not 'success'
GeoNonSuccess ==
    /\ Answered(upstream.geo)
    /\ upstream.geo.kind = "http"
    /\ upstream.geo.body # InvalidJson
    /\ "status" \in DOMAIN upstream.geo.body.f
    /\ upstream.geo.body.f["status"] # Str("success")

\* C1: once the geolocation service has answered with a status other than
\* 'success', the request is over with the error-shaped payload and no
\* weather, news or generation call was made.
C1_GeoFailureShortCircuits ==
    GeoNonSuccess =>
        /\ pc = "done"
        /\ ErrorShaped
        /\ ~Called("weather")
        /\ ~Called("news")
        /\ ~Called("generation")

C1_Witness == GeoNonSuccess /\ pc = "done" /\ Called("geolocation")

WeatherNon200 ==
    /\ Answered(upstream.weather)
    /\ upstream.weather.kind = "http"
    /\ upstream.weather.status_code # 200

\* C2: once the weather service has answered with a status code other than
\* 200 (geolocation having succeeded), the request is over with the
\* error-shaped payload and no news or generation call was made.
C2_WeatherFailureShortCircuits ==
    WeatherNon200 =>
        /\ pc = "done"
        /\ ErrorShaped
        /\ ~Called("news")
        /\ ~Called("generation")

C2_Witness ==
    WeatherNon200 /\ pc = "done" /\ loc_info # Unset /\ ~Falsy(loc_info)

\* the service did not deliver: a transport failure or a non-200 answer
Unavailable(a) ==
    /\ Answered(a)
    /\ (a.kind = "transport_error" \/ a.status_code # 200)

\* C3: a request in which the news service failed ends with the
\* success-shaped payload, an empty news_headlines and an excuse produced by
\* the generation step.
C3_NewsFailureTolerated ==
    (Unavailable(upstream.news) /\ pc = "done") =>
        /\ SuccessShaped
        /\ response.content.f["news_headlines"] = List(<<>>)
        /\ Called("generation")
        /\ response.content.f["excuse"] = excuse
        /\ excuse # Unset

GenFailed ==
    /\ Answered(upstream.gen)
    /\ upstream.gen.kind \in {"raise", "no_text"}

C5_TimeClassification ==
    time_info # Unset =>
        LET h == upstream.clock.hour
            d == upstream.clock.weekday
            p == time_info.f["time_period"].s
            morning == 7 <= h /\ h <= 10
            evening == 16 <= h /\ h <= 19
        IN  /\ time_info.f["hour"] = Num(h)
            /\ time_info.f["weekday"] = Str(d)
            /\ (p = "morning rush hour") <=> morning
            /\ (p = "evening rush hour") <=> evening
            /\ (p = "off-peak hours") <=> (~morning /\ ~evening)
            /\ time_info.f["is_weekend"].b <=> (d \in {"Saturday", "Sunday"})

C5_Witness ==
    /\ time_info # Unset
    /\ upstream.clock = [hour |-> 10, weekday |-> "Saturday"]
    /\ time_info.f["time_period"] = Str("morning rush hour")

RECURSIVE FirstOctet(_)
\* the characters of an address before its first dot
FirstOctet(a) ==
    IF a = <<>> \/ Head(a) = "." THEN <<>> ELSE <<Head(a)>> \o FirstOctet(Tail(a))

\* 127.0.0.0/8 or ::1
IsLoopback(a) ==
    \/ (\E i \in 1..Len(a) : a[i] = ".") /\ FirstOctet(a) = <<"1", "2", "7">>
    \/ a = <<":", ":", "1">>

\* C6: the geolocation service is never called with a loopback address: a
\* loopback caller address is replaced by 8.8.8.8 before the call, any other
\* address is passed unchanged, and ip_used is the address that was used.
C6_LoopbackSubstituted ==
    Called("geolocation") =>
        /\ ~IsLoopback(geo_arg)
        /\ IsLoopback(client_host) => geo_arg = <<"8", ".", "8", ".", "8", ".", "8">>
        /\ ~IsLoopback(client_host) => geo_arg = client_host
        /\ SuccessShaped => response.content.f["ip_used"] = Chars(geo_arg)

C6_Witness ==
    /\ IsLoopback(client_host)
    /\ client_host # <<"1", "2", "7", ".", "0", ".", "0", ".", "1">>
    /\ Called("geolocation")
    /\ SuccessShaped

\* C7: an unavailable geolocation, weather or news service never makes an
\* exception escape to the handler, and every finished request has the
\* error-shaped or the success-shaped payload.
C7_NoExceptionEscapes ==
    /\ (Unavailable(upstream.geo) \/ GeoNonSuccess \/ Unavailable(upstream.weather)
          \/ Unavailable(upstream.news)) => response.status # "raised"
    /\ pc = "done" => (ErrorShaped \/ SuccessShaped)

CallOrder ==
    <<Begin("geolocation"), End("geolocation"), Begin("weather"), End("weather"),
      Begin("news"), End("news"), Begin("generation"), End("generation")>>

\* C8: the outbound calls of a request are a prefix of geolocation, weather,
\* news, generation, each ended before the next begins and none made twice.
C8_SequentialCalls ==
    /\ Len(calls) <= Len(CallOrder)
    /\ \A i \in 1..Len(calls) : calls[i] = CallOrder[i]

C8_Witness == calls = CallOrder /\ pc = "done"

\* the news service answered 200 with a list of articles
News200 ==
    /\ Answered(upstream.news)
    /\ upstream.news.kind = "http"
    /\ upstream.news.status_code = 200
    /\ upstream.news.body # InvalidJson
    /\ "articles" \in DOMAIN upstream.news.body.f
    /\ upstream.news.body.f["articles"].t = "list"

\* the value of a field, None when the object lacks it
FieldOrNone(obj, k) ==
    IF obj.t = "dict" /\ k \in DOMAIN obj.f THEN obj.f[k] ELSE PyNone

ExpectedHeadline(article) ==
    Dict([title  |-> FieldOrNone(article, "title"),
          source |-> FieldOrNone(FieldOrNone(article, "source"), "name"),
          url    |-> FieldOrNone(article, "url")])

\* C9: on a 200 answer get_news does not fail and returns one record
\* {title, source, url} per article, in order, a field the article lacks
\* being None.
C9_NewsMapped ==
    News200 =>
        LET arts == upstream.news.body.f["articles"].items IN
        /\ response.status # "raised"
        /\ news.t = "list"
        /\ Len(news.items) = Len(arts)
        /\ \A i \in 1..Len(arts) : news.items[i] = ExpectedHeadline(arts[i])

\* the weather service answered 200 with a JSON object
Weather200 ==
    /\ Answered(upstream.weather)
    /\ upstream.weather.kind = "http"
    /\ upstream.weather.status_code = 200
    /\ upstream.weather.body # InvalidJson

Missing == [t |-> "missing"]

\* the value of a field, Missing when the object is not there or lacks it
FieldOrMissing(obj, k) ==
    IF obj.t = "dict" /\ k \in DOMAIN obj.f THEN obj.f[k] ELSE Missing

OrSentinel(v, sentinel) == IF v = Missing THEN sentinel ELSE v

\* C10: on a 200 answer get_weather does not fail and returns the four
\* fields, each copied from the response when present there and replaced by
\* its sentinel when missing.
C10_WeatherSentinels ==
    Weather200 =>
        LET current == FieldOrMissing(upstream.weather.body, "current")
            text == FieldOrMissing(FieldOrMissing(current, "condition"), "text")
        IN  /\ response.status # "raised"
            /\ weather = Dict(
                 [condition     |-> OrSentinel(text, Str("Unknown")),
                  temperature_c |-> OrSentinel(FieldOrMissing(current, "temp_c"), Str("N/A")),
                  humidity      |-> OrSentinel(FieldOrMissing(current, "humidity"), Str("N/A")),
                  wind_kph      |-> OrSentinel(FieldOrMissing(current, "wind_kph"), Str("N/A"))])

====
